---- MODULE Spec2Model ----
(***************************************************************************)
(* Local RAG API: main.py (FastAPI handlers, readiness flag, conversation  *)
(* store) on top of rag_engine.py (LocalRAGSystem, OllamaLLM).             *)
(*                                                                         *)
(* Scheduling.  `async def` handlers (initialize, ask, ask/stream, upload, *)
(* reset) and the streaming generator run on the event loop; none of them  *)
(* awaits, so each runs to its end (or to the generator's next yield)      *)
(* without another event-loop task in between.  `def` handlers (the        *)
(* conversation endpoints, delete_document) run in the thread pool and can *)
(* run while the event loop is blocked inside rag_system.ask.              *)
(*                                                                         *)
(* Texts are sequences of characters; a fixed literal of the program is a  *)
(* one-character sequence holding the literal.                             *)
(***************************************************************************)
EXTENDS Integers, Sequences, FiniteSets, TLC

VARIABLES
    system_ready,         \* main.py global system_ready
    vectorstore,          \* rag_system.vectorstore
    ingesting,            \* initialize handlers between their start and their end
    chroma_db,            \* the chunks of the collection persisted in ./chroma_db
    documents,            \* file names in ./documents
    conversation_store,   \* main.py global: session id -> list of entries
    clock,                \* datetime.now(), as the number of timestamps stored so far
    askcall,              \* the /ask request the event loop is blocked in
    streams,              \* /ask/stream requests: generator position and locals
    response              \* the last HTTP response (status line, detail, body)

vars == <<system_ready, ingesting, vectorstore, chroma_db, documents, conversation_store, clock,
          askcall, streams, response>>

----------------------------------------------------------------------------
(* Bounds of the model *)

\* number of question requests accepted that can still store a turn
MaxClock == 2
\* number of fragments the generation service delivers for one prompt
MaxFrags == 2
\* turns a session holds at the start of the history specification
MaxTurns == 4

(* Program constants *)

\* ask / ask_stream fetch count
K == 10
\* turns of history rendered into the prompt
HistoryWindow == 3
\* characters of a chunk kept in a source preview
PreviewLen == 200

(* Value sets *)

None == "None"
Questions == {"q1"}
ClientSessionIds == {"s1"}
Uuids == {"u1"}
SessionIds == ClientSessionIds \cup Uuids
StreamSlots == {"r1"}
Whitespace == {" "}
\* The fragments of the replies the generation service gives in this model:
\* a reply is a prefix of this script, ended normally or by a failure.  The
\* script has leading and trailing white space and an empty fragment.
ReplyScript == << <<" ", "a">>, <<"b", " ">>, <<>> >>
ScriptFragment(i) == ReplyScript[((i - 1) % Len(ReplyScript)) + 1]
Files == {"a.txt", "x.bin"}
\* the file names of the ingestion specification: two loadable files and a
\* hidden one
IngestFiles == {"a.txt", "b.txt", ".h.txt"}
\* os.path.splitext(name)[1].lower() is one of the extensions with a loader
Supported(f) == f \in {"a.txt", "b.txt", ".h.txt", "long.txt"}
\* name.startswith('.')
Hidden(f) == f \in {".h.txt"}

\* chunks the segmenter produces for a loaded file; the chunk of long.txt
\* is one character longer than a source preview (chunk_size allows 500)
ChunksOf(f) ==
    IF f = "a.txt"
    THEN {[content |-> <<"c", "1">>, filename |-> f, score |-> 1]}
    ELSE IF f = "long.txt"
    THEN {[content |-> [i \in 1..(PreviewLen + 1) |-> "x"], filename |-> f, score |-> 3]}
    ELSE {[content |-> <<"c", "2">>, filename |-> f, score |-> 2]}

----------------------------------------------------------------------------
(* Text helpers *)

Min(a, b) == IF a < b THEN a ELSE b
Max(a, b) == IF a > b THEN a ELSE b

RECURSIVE Concat(_)
Concat(ss) == IF ss = <<>> THEN <<>> ELSE Head(ss) \o Concat(Tail(ss))

RECURSIVE LStrip(_)
LStrip(t) == IF t # <<>> /\ Head(t) \in Whitespace THEN LStrip(Tail(t)) ELSE t

RECURSIVE RStrip(_)
RStrip(t) ==
    IF t # <<>> /\ t[Len(t)] \in Whitespace
    THEN RStrip(SubSeq(t, 1, Len(t) - 1))
    ELSE t

\* str.strip()
Strip(t) == RStrip(LStrip(t))

\* seq[-n:]
\* the first n elements instead of the last n
OldestN(s, n) == SubSeq(s, 1, IF n < Len(s) THEN n ELSE Len(s))
LastN(s, n) == SubSeq(s, Max(1, Len(s) - n + 1), Len(s))

Last(s) == s[Len(s)]

\* seq[:n]
FirstN(s, n) == SubSeq(s, 1, Min(n, Len(s)))

----------------------------------------------------------------------------
(* rag_engine.py: OllamaLLM *)

ErrorText == <<"Error generating response: ...">>

\* Outcomes of one non-streaming call of the generation service: it answers
\* with the text of a whole reply, or the request fails (connection,
\* timeout, HTTP status).
Reply(n) == [i \in 1..n |-> ScriptFragment(i)]
GenTexts == {Concat(Reply(MaxFrags))}
GenOutcomes == [failed : {FALSE}, text : GenTexts] \cup {[failed |-> TRUE, text |-> <<>>]}

\* OllamaLLM.generate: the except clause turns a failure into a returned text
generate(outcome) == IF outcome.failed THEN ErrorText ELSE outcome.text

----------------------------------------------------------------------------
(* rag_engine.py: LocalRAGSystem *)

\* What similarity_search_with_score can hand back: up to k (doc, score)
\* hits over the indexed chunks, in the order the store chooses, or an
\* exception of the backend.
\* self.vectorstore: None, or the Chroma object over the indexed chunks
NoVectorstore == [attached |-> FALSE, chunks |-> {}]
Chroma(chunks) == [attached |-> TRUE, chunks |-> chunks]
\* the truth value of self.vectorstore
Attached(vs) == vs.attached

Hits(vs, k) ==
    LET indexed == IF Attached(vs) THEN vs.chunks ELSE {} IN
    {h \in UNION {[1..n -> indexed] : n \in 0..Min(k, Cardinality(indexed))} :
        \A i, j \in 1..Len(h) : i # j => h[i] # h[j]}
StoreOutcomes(vs, k) ==
    [raise : {FALSE}, hits : Hits(vs, k)] \cup {[raise |-> TRUE, hits |-> <<>>]}

\* ranks counted from 0, as enumerate does without the + 1
retrieve_relevant_docs_zero_based(vs, results) ==
    IF ~Attached(vs) THEN <<>>
    ELSE [i \in 1..Len(results) |->
            [content |-> results[i].content,
             metadata |-> [filename |-> results[i].filename],
             relevance_score |-> results[i].score,
             relevance_rank |-> i - 1]]
retrieve_relevant_docs(vs, results) ==
    IF ~Attached(vs) THEN <<>>
    ELSE [i \in 1..Len(results) |->
            [content |-> results[i].content,
             metadata |-> [filename |-> results[i].filename],
             relevance_score |-> results[i].score,
             relevance_rank |-> i]]

\* the prompt of generate_answer / generate_answer_stream: the context blocks,
\* the history lines and the question (the instruction text is fixed)
BuildPrompt(query, context_docs, conversation_history) ==
    [context |-> [i \in 1..Len(context_docs) |->
                    [rank |-> context_docs[i].relevance_rank,
                     filename |-> context_docs[i].metadata.filename,
                     content |-> context_docs[i].content]],
     history |-> LET window == LastN(conversation_history, HistoryWindow)
                 IN  [i \in 1..Len(window) |->
                        [user |-> window[i].question, assistant |-> window[i].answer]],
     question |-> query]

NoPrompt == [context |-> <<>>, history |-> <<>>, question |-> ""]

Ellipsis == <<"...">>

\* sources that carry the whole content of each chunk
FormatSourcesUntruncated(relevant_docs) ==
    [i \in 1..Len(relevant_docs) |->
        [content_preview |-> relevant_docs[i].content \o Ellipsis,
         metadata |-> relevant_docs[i].metadata,
         relevance_score |-> relevant_docs[i].relevance_score]]
FormatSources(relevant_docs) ==
    [i \in 1..Len(relevant_docs) |->
        [content_preview |-> FirstN(relevant_docs[i].content, PreviewLen) \o Ellipsis,
         metadata |-> relevant_docs[i].metadata,
         relevance_score |-> relevant_docs[i].relevance_score]]

NotInitializedText == <<"System not initialized. Please load documents first.">>
NoInfoAtomic == <<"I couldn't find any relevant information in the documents.">>
NoInfoStream == <<"I couldn't find any relevant information.">>

AskResultRec(keys, error, question, answer, sources) ==
    [keys |-> keys, error |-> error, question |-> question, answer |-> answer,
     sources |-> sources]

\* the answer field of ask's result: generate_answer's text, stripped
AskAnswer(text) == Strip(text)

\* LocalRAGSystem.ask as a function of its arguments and of what the vector
\* store (store) and the generation service (gen) do when called.
\* raised: an exception left ask;  genCalls: calls of llm.generate made.
ask(vs, query, conversation_history, store, gen) ==
    IF ~Attached(vs)
    THEN [raised |-> FALSE, genCalls |-> 0, prompt |-> NoPrompt,
          result |-> AskResultRec({"error", "answer"}, NotInitializedText, "", <<>>, <<>>)]
    ELSE IF store.raise
    THEN [raised |-> TRUE, genCalls |-> 0, prompt |-> NoPrompt,
          result |-> AskResultRec({}, <<>>, "", <<>>, <<>>)]
    ELSE LET relevant_docs == retrieve_relevant_docs(vs, store.hits) IN
         IF relevant_docs = <<>>
         THEN [raised |-> FALSE, genCalls |-> 0, prompt |-> NoPrompt,
               result |-> AskResultRec({"question", "answer", "sources"}, <<>>,
                                       query, NoInfoAtomic, <<>>)]
         ELSE [raised |-> FALSE, genCalls |-> 1,
               prompt |-> BuildPrompt(query, relevant_docs, conversation_history),
               result |-> AskResultRec({"question", "answer", "sources"}, <<>>,
                                       query, AskAnswer(generate(gen)),
                                       FormatSources(relevant_docs))]

(* Events of ask_stream (the JSON objects it yields) and of main.py's
   generate(); keys is the set of keys present in the object. *)
Event(keys, question, sources, answer_chunk, answer, error, done) ==
    [keys |-> keys, question |-> question, sources |-> sources,
     answer_chunk |-> answer_chunk, answer |-> answer, error |-> error,
     done |-> done]

EvNotInitialized ==
    Event({"error"}, "", <<>>, <<>>, <<>>, <<"System not initialized">>, FALSE)
\* a fallback event that leaves the stream open
EvFallbackNotDone(query) ==
    Event({"question", "answer", "sources", "done"}, query, <<>>, <<>>, NoInfoStream, <<>>, FALSE)
EvFallback(query) ==
    Event({"question", "answer", "sources", "done"}, query, <<>>, <<>>, NoInfoStream, <<>>, TRUE)
\* a first event without the sources
EvSourcesMissing(query, sources) ==
    Event({"question", "answer_chunk", "done"}, query, <<>>, <<>>, <<>>, <<>>, FALSE)
EvSources(query, sources) ==
    Event({"question", "sources", "answer_chunk", "done"}, query, sources, <<>>, <<>>, <<>>, FALSE)
EvChunk(chunk) ==
    Event({"answer_chunk", "done"}, "", <<>>, chunk, <<>>, <<>>, FALSE)
EvDone ==
    Event({"done"}, "", <<>>, <<>>, <<>>, <<>>, TRUE)
\* an error event that does not end the stream
EvErrorNotDone(message) ==
    Event({"error", "done"}, "", <<>>, <<>>, <<>>, message, FALSE)
\* main.py generate(): the except clause's event
EvError(message) ==
    Event({"error", "done"}, "", <<>>, <<>>, <<>>, message, TRUE)

\* chunk_data.get("done", False)
IsDone(ev) == "done" \in ev.keys /\ ev.done

----------------------------------------------------------------------------
(* main.py: state and helpers *)

Resp(op, status, detail, body) ==
    [op |-> op, status |-> status, detail |-> detail, body |-> body]

NoBody == [question |-> "", answer |-> <<>>, sources |-> <<>>, session_id |-> ""]

NotReadyDetail == "System not initialized. Please call POST /initialize first."

\* what the vector store did when it was queried
Retrieval(vs, store) ==
    IF ~Attached(vs) THEN "none"
    ELSE IF store.raise THEN "raised"
    ELSE IF store.hits = <<>> THEN "empty" ELSE "hits"

\* the ask the event loop is blocked in: nothing
\* (retrieval and gen record what the vector store and the generation
\* service did for this request)
IdleAsk ==
    [pc |-> "idle", question |-> "", session_id |-> "", retrieval |-> "none",
     gen |-> "none",
     out |-> [raised |-> FALSE, genCalls |-> 0, prompt |-> NoPrompt,
              result |-> AskResultRec({}, <<>>, "", <<>>, <<>>)]]

\* a stream slot without a request
IdleStream ==
    [pc |-> "idle", question |-> "", session_id |-> "", live |-> FALSE,
     history |-> <<>>, retrieval |-> "none", engine |-> "none", llm |-> "none",
     docs |-> <<>>,
     prompt |-> NoPrompt, genCalls |-> 0, delivered |-> <<>>, genFailed |-> FALSE,
     full_answer |-> <<>>, sources |-> <<>>, events |-> <<>>]

\* a readiness check that never rejects
NotReadyIgnored == FALSE

\* if not system_ready: raise HTTPException(400, ...)
NotReady == ~system_ready

\* handlers that run in the thread pool would never find the loop blocked
LoopNeverBlocked == TRUE
\* no await in any async handler: while ask is inside rag_system.ask, or
\* initialize inside initialize_from_documents, the event loop runs nothing else
LoopFree ==
    /\ askcall.pc = "idle"
    /\ ingesting = 0
    /\ \A r \in DOMAIN streams : streams[r].pc # "append"

InFlight == {r \in DOMAIN streams : streams[r].pc # "idle"}

\* bound of the model: every request in flight can still store a turn
CanAccept ==
    clock + Cardinality(InFlight) + (IF askcall.pc = "idle" THEN 0 ELSE 1) < MaxClock

\* session ids a request body can carry: None, a client's own id, or an id
\* the server handed out before
RequestSessionIds == {None} \cup ClientSessionIds \cup DOMAIN conversation_store

\* str(uuid.uuid4()): an identifier nobody holds yet
FreshUuids ==
    {u \in Uuids : u \notin DOMAIN conversation_store
                   /\ \A r \in InFlight : streams[r].session_id # u}

\* a lookup that gives an unknown session the history of a session that exists
GetHistoryOfAnySession(store, session_id) ==
    IF session_id \in DOMAIN store THEN store[session_id]
    ELSE IF DOMAIN store = {} THEN <<>>
    ELSE store[CHOOSE s \in DOMAIN store : TRUE]
\* conversation_store.get(session_id, [])
GetHistory(store, session_id) ==
    IF session_id \in DOMAIN store THEN store[session_id] ELSE <<>>

\* if session_id not in conversation_store: conversation_store[session_id] = []
\* conversation_store[session_id].append(conversation_entry)
\* the entry is put in front of the session's list
StoreEntryPrepends(store, session_id, entry) ==
    [s \in DOMAIN store \cup {session_id} |->
        IF s = session_id THEN <<entry>> \o GetHistory(store, s) ELSE store[s]]
\* the entry replaces the session's list instead of being appended to it
StoreEntryOverwrites(store, session_id, entry) ==
    [s \in DOMAIN store \cup {session_id} |->
        IF s = session_id THEN <<entry>> ELSE store[s]]
\* the entry is appended to the list of every session
StoreEntryInEverySession(store, session_id, entry) ==
    [s \in DOMAIN store \cup {session_id} |-> Append(GetHistory(store, s), entry)]
StoreEntry(store, session_id, entry) ==
    [s \in DOMAIN store \cup {session_id} |->
        IF s = session_id THEN Append(GetHistory(store, s), entry) ELSE store[s]]

Entry(question, answer, sources, timestamp) ==
    [question |-> question, answer |-> answer, sources |-> sources,
     timestamp |-> timestamp]

\* history is the list object of the session, not a copy: while the session
\* stays in the store the generator sees appends made to it meanwhile; once
\* the session is deleted the object keeps the contents it had.
History(st) ==
    IF st.live THEN conversation_store[st.session_id] ELSE st.history

\* a deletion that also empties the list the generators hold
DetachEmptied(strs, store, gone) ==
    [r \in DOMAIN strs |->
        IF strs[r].live /\ strs[r].session_id \in gone
        THEN [strs[r] EXCEPT !.live = FALSE, !.history = <<>>]
        ELSE strs[r]]
\* del conversation_store[...] / .clear(): generators holding a deleted list
\* keep it
Detach(strs, store, gone) ==
    [r \in DOMAIN strs |->
        IF strs[r].live /\ strs[r].session_id \in gone
        THEN [strs[r] EXCEPT !.live = FALSE, !.history = store[strs[r].session_id]]
        ELSE strs[r]]

Init ==
    /\ system_ready = FALSE
    /\ vectorstore = NoVectorstore
    /\ chroma_db = {}
    /\ ingesting = 0
    /\ documents = {}
    /\ conversation_store = <<>>
    /\ clock = 0
    /\ askcall = IdleAsk
    /\ streams = [r \in StreamSlots |-> IdleStream]
    /\ response = Resp("none", 0, "", NoBody)

----------------------------------------------------------------------------
(* main.py: POST /ask *)

\* lines 361-375: the readiness check, the session id, the history and the
\* call of rag_system.ask
AskAccepted(question, sid, store, gen) ==
    /\ ~NotReady
    /\ CanAccept
    /\ \E session_id \in (IF sid = None THEN FreshUuids ELSE {sid}) :
         LET history == GetHistory(conversation_store, session_id)
             out == ask(vectorstore, question, history, store, gen)
         IN  askcall' = [pc |-> "called", question |-> question,
                         session_id |-> session_id,
                         retrieval |-> Retrieval(vectorstore, store),
                         gen |-> IF out.genCalls = 0 THEN "none"
                                 ELSE IF gen.failed THEN "failed" ELSE "ok",
                         out |-> out]
    /\ UNCHANGED <<system_ready, ingesting, vectorstore, chroma_db, documents,
                   conversation_store, clock, streams, response>>

AskRejected ==
    /\ NotReady
    /\ response' = Resp("ask", 400, NotReadyDetail, NoBody)
    /\ UNCHANGED <<system_ready, ingesting, vectorstore, chroma_db, documents,
                   conversation_store, clock, askcall, streams>>

ask_question(question, sid) ==
    /\ LoopFree
    /\ \/ AskRejected
       \/ \E store \in StoreOutcomes(vectorstore, K), gen \in GenOutcomes :
             AskAccepted(question, sid, store, gen)

\* lines 377-403: the result is stored and returned, or an error is raised
ask_question_return ==
    /\ askcall.pc = "called"
    /\ LET out == askcall.out
           result == out.result
       IN  IF out.raised
           THEN /\ response' = Resp("ask", 500, "Error processing question", NoBody)
                /\ UNCHANGED <<conversation_store, clock>>
           ELSE IF "error" \in result.keys
           THEN /\ response' = Resp("ask", 400, "System not initialized. Please load documents first.", NoBody)
                /\ UNCHANGED <<conversation_store, clock>>
           ELSE /\ conversation_store' =
                      StoreEntry(conversation_store, askcall.session_id,
                                 Entry(result.question, result.answer,
                                       result.sources, clock + 1))
                /\ clock' = clock + 1
                /\ response' = Resp("ask", 200, "",
                                    [question |-> result.question,
                                     answer |-> result.answer,
                                     sources |-> result.sources,
                                     session_id |-> askcall.session_id])
    /\ askcall' = IdleAsk
    /\ UNCHANGED <<system_ready, ingesting, vectorstore, chroma_db, documents, streams>>

----------------------------------------------------------------------------
(* main.py: POST /ask/stream *)

\* lines 428-487: the readiness check, the session id, the history and the
\* StreamingResponse around generate(), which has not run yet
StreamAccepted(r, question, sid) ==
    /\ ~NotReady
    /\ CanAccept
    /\ streams[r].pc = "idle"
    /\ \E session_id \in (IF sid = None THEN FreshUuids ELSE {sid}) :
         /\ streams' = [streams EXCEPT ![r] =
                [IdleStream EXCEPT !.pc = "start", !.question = question,
                                   !.session_id = session_id,
                                   !.live = (session_id \in DOMAIN conversation_store)]]
         /\ response' = Resp("ask_stream", 200, "",
                             [NoBody EXCEPT !.session_id = session_id])
    /\ UNCHANGED <<system_ready, ingesting, vectorstore, chroma_db, documents,
                   conversation_store, clock, askcall>>

StreamRejected ==
    /\ NotReady
    /\ response' = Resp("ask_stream", 400, NotReadyDetail, NoBody)
    /\ UNCHANGED <<system_ready, ingesting, vectorstore, chroma_db, documents,
                   conversation_store, clock, askcall, streams>>

ask_question_stream(r, question, sid) ==
    /\ LoopFree
    /\ \/ StreamRejected
       \/ StreamAccepted(r, question, sid)

\* generate(), lines 447-458: one event of ask_stream is parsed, the sources
\* and the answer text are picked up, and the event is yielded
Forward(st, ev) ==
    [st EXCEPT
        !.sources = IF "sources" \in ev.keys THEN ev.sources ELSE @,
        !.full_answer = IF "answer_chunk" \in ev.keys /\ ev.answer_chunk # <<>>
                        THEN @ \o ev.answer_chunk ELSE @,
        !.events = Append(@, ev),
        !.pc = "yield"]

\* generate(), lines 475-477
ForwardError(st, message) ==
    [st EXCEPT !.events = Append(@, EvError(message)), !.pc = "yield_error"]

\* the generator function is over; its locals are gone
Close(st) == IdleStream

\* ask_stream, lines 406-437: up to its first yield
EngineFirst(st, vs, store) ==
    IF ~Attached(vs)
    THEN Forward([st EXCEPT !.engine = "after_uninit"], EvNotInitialized)
    ELSE IF store.raise
    THEN ForwardError(st, <<"vector store error">>)
    ELSE LET relevant_docs == retrieve_relevant_docs(vs, store.hits) IN
         IF relevant_docs = <<>>
         THEN Forward([st EXCEPT !.engine = "after_fallback"], EvFallback(st.question))
         ELSE Forward([st EXCEPT !.engine = "after_sources", !.docs = relevant_docs],
                      EvSources(st.question, FormatSources(relevant_docs)))

\* What the generation service does when the next line of its reply is
\* read: a fragment, the end of the reply, or a failure.
LineOutcomes(st) ==
    {[kind |-> "eof", text |-> <<>>], [kind |-> "fail", text |-> <<>>]}
    \cup (IF Len(st.delivered) < MaxFrags
          THEN {[kind |-> "fragment", text |-> ScriptFragment(Len(st.delivered) + 1)]}
          ELSE {})

\* generate_stream, lines 61-77, as driven by ask_stream lines 439-447: the
\* next fragment is yielded; at the end of the reply the generator returns and
\* ask_stream yields its completion event; the except clause yields the
\* failure as one more fragment, after which the generator returns
LlmNext(st, line) ==
    IF st.llm = "failed"
    THEN Forward([st EXCEPT !.llm = "ended", !.engine = "after_done"], EvDone)
    ELSE IF line.kind = "fragment"
    THEN Forward([st EXCEPT !.llm = "iterating", !.engine = "in_gen",
                            !.delivered = Append(@, line.text)],
                 EvChunk(line.text))
    ELSE IF line.kind = "eof"
    THEN Forward([st EXCEPT !.llm = "ended", !.engine = "after_done"], EvDone)
    ELSE Forward([st EXCEPT !.llm = "failed", !.engine = "in_gen", !.genFailed = TRUE],
                 EvChunk(ErrorText))

\* generate_answer_stream, lines 317-352: the prompt is composed when the
\* generator is first resumed after the sources event, then the request is made
StartGeneration(st, hist) ==
    [st EXCEPT !.prompt = BuildPrompt(st.question, st.docs, hist),
               !.genCalls = @ + 1, !.llm = "iterating"]

\* generate(), lines 460-473: the terminal event was yielded and the
\* generator is resumed
\* the stored-turn test without the check of the accumulated answer
ShouldStoreAnyAnswer(st) == st.session_id # ""
ShouldStore(st) == st.full_answer # <<>> /\ st.session_id # ""

StreamEntry(st, timestamp) ==
    Entry(st.question, st.full_answer, st.sources, timestamp)

\* first resumption of generate()
stream_start(r) ==
    /\ LoopFree
    /\ streams[r].pc = "start"
    /\ \E store \in StoreOutcomes(vectorstore, K) :
         streams' = [streams EXCEPT ![r] =
             EngineFirst([@ EXCEPT !.retrieval = Retrieval(vectorstore, store)],
                         vectorstore, store)]
    /\ UNCHANGED <<system_ready, ingesting, vectorstore, chroma_db, documents,
                   conversation_store, clock, askcall, response>>

\* a generator that stores the turn before it yields the done event
stream_next_stores_at_done(r) ==
    /\ LoopFree
    /\ streams[r].pc = "yield"
    /\ ~IsDone(Last(streams[r].events))
    /\ LET st == streams[r] IN
       IF st.engine = "after_uninit"
       THEN /\ streams' = [streams EXCEPT ![r] = Close(st)]
            /\ UNCHANGED <<conversation_store, clock>>
       ELSE \E line \in LineOutcomes(st) :
              LET next == LlmNext(IF st.engine = "after_sources"
                                  THEN StartGeneration(st, History(st)) ELSE st, line)
              IN  /\ streams' = [streams EXCEPT ![r] = next]
                  /\ IF IsDone(Last(next.events)) /\ ShouldStore(next)
                     THEN /\ conversation_store' =
                                StoreEntry(conversation_store, next.session_id,
                                           StreamEntry(next, clock + 1))
                          /\ clock' = clock + 1
                     ELSE UNCHANGED <<conversation_store, clock>>
    /\ UNCHANGED <<system_ready, ingesting, vectorstore, chroma_db, documents,
                   askcall, response>>

\* resumption after a yielded event that is not done: the next event
stream_next(r) ==
    /\ LoopFree
    /\ streams[r].pc = "yield"
    /\ ~IsDone(Last(streams[r].events))
    /\ LET st == streams[r] IN
       IF st.engine = "after_uninit"
       THEN streams' = [streams EXCEPT ![r] = Close(st)]
       ELSE \E line \in LineOutcomes(st) :
              streams' = [streams EXCEPT ![r] =
                  LlmNext(IF st.engine = "after_sources"
                          THEN StartGeneration(st, History(st)) ELSE st, line)]
    /\ UNCHANGED <<system_ready, ingesting, vectorstore, chroma_db, documents,
                   conversation_store, clock, askcall, response>>

\* resumption after the yielded done event, or after the except clause's event
stream_finish(r) ==
    /\ LoopFree
    /\ LET st == streams[r] IN
       \/ /\ st.pc = "yield"
          /\ IsDone(Last(st.events))
          /\ IF ShouldStore(st)
             THEN /\ conversation_store' =
                        StoreEntry(conversation_store, st.session_id,
                                   StreamEntry(st, clock + 1))
                  /\ clock' = clock + 1
             ELSE UNCHANGED <<conversation_store, clock>>
          /\ streams' = [streams EXCEPT ![r] = Close(st)]
       \/ /\ st.pc = "yield_error"
          /\ streams' = [streams EXCEPT ![r] = Close(st)]
          /\ UNCHANGED <<conversation_store, clock>>
    /\ UNCHANGED <<system_ready, ingesting, vectorstore, chroma_db, documents, askcall, response>>

\* a disconnect whose clean-up stores what has been accumulated so far
stream_disconnect_stores(r) ==
    /\ LoopFree
    /\ streams[r].pc \in {"start", "yield", "yield_error"}
    /\ conversation_store' = StoreEntry(conversation_store, streams[r].session_id,
                                        StreamEntry(streams[r], clock + 1))
    /\ clock' = clock + 1
    /\ streams' = [streams EXCEPT ![r] = Close(@)]
    /\ response' = Resp("ask_stream", 200, "client disconnected",
                        [NoBody EXCEPT !.session_id = streams[r].session_id,
                                       !.answer = streams[r].full_answer])
    /\ UNCHANGED <<system_ready, ingesting, vectorstore, chroma_db, documents, askcall>>

\* the client goes away while generate() is suspended: the response task is
\* cancelled and the generator is closed where it stands
stream_disconnect(r) ==
    /\ LoopFree
    /\ streams[r].pc \in {"start", "yield", "yield_error"}
    /\ streams' = [streams EXCEPT ![r] = Close(@)]
    /\ response' = Resp("ask_stream", 200, "client disconnected",
                        [NoBody EXCEPT !.session_id = streams[r].session_id,
                                       !.answer = streams[r].full_answer])
    /\ UNCHANGED <<system_ready, ingesting, vectorstore, chroma_db, documents,
                   conversation_store, clock, askcall>>

----------------------------------------------------------------------------
(* main.py: conversation endpoints (thread pool) *)

NotFoundDetail == "Session not found"

\* GET /conversations/{session_id}
get_conversation_history(session_id) ==
    /\ IF session_id \notin DOMAIN conversation_store
       THEN response' = Resp("history", 404, NotFoundDetail, NoBody)
       ELSE LET history == conversation_store[session_id] IN
            response' = Resp("history", 200, "",
                             [session_id |-> session_id,
                              conversation_count |-> Len(history),
                              conversations |-> history])
    /\ UNCHANGED <<system_ready, ingesting, vectorstore, chroma_db, documents,
                   conversation_store, clock, askcall, streams>>

\* the session's list is emptied but the session is kept
clear_conversation_history_keeps_key(session_id) ==
    /\ IF session_id \notin DOMAIN conversation_store
       THEN /\ response' = Resp("clear", 404, NotFoundDetail, NoBody)
            /\ UNCHANGED <<conversation_store, streams>>
       ELSE /\ conversation_store' = [conversation_store EXCEPT ![session_id] = <<>>]
            /\ streams' = Detach(streams, conversation_store, {session_id})
            /\ response' = Resp("clear", 200, "", [NoBody EXCEPT !.session_id = session_id])
    /\ UNCHANGED <<system_ready, ingesting, vectorstore, chroma_db, documents, clock, askcall>>

clear_conversation_history(session_id) ==
    /\ IF session_id \notin DOMAIN conversation_store
       THEN /\ response' = Resp("clear", 404, NotFoundDetail, NoBody)
            /\ UNCHANGED <<conversation_store, streams>>
       ELSE /\ conversation_store' =
                  [s \in DOMAIN conversation_store \ {session_id} |-> conversation_store[s]]
            /\ streams' = Detach(streams, conversation_store, {session_id})
            /\ response' = Resp("clear", 200, "", [NoBody EXCEPT !.session_id = session_id])
    /\ UNCHANGED <<system_ready, ingesting, vectorstore, chroma_db, documents, clock, askcall>>

\* history[0]["question"][:50] + "..."
FirstQuestionLen == 50
LongQuestion == "q2"
\* the characters of a question: q2 is one character longer than the preview
QuestionChars(q) ==
    IF q = LongQuestion THEN [i \in 1..(FirstQuestionLen + 1) |-> "x"] ELSE <<"q", "1">>
\* a summary that describes the newest turn only
SessionSummaryOfNewest(session_id, history) ==
    [session_id |-> session_id,
     conversation_count |-> Len(history),
     last_updated |-> Last(history).timestamp,
     first_question |->
         FirstN(QuestionChars(Last(history).question), FirstQuestionLen) \o Ellipsis]
\* GET /conversations: one summary per session that holds a turn
SessionSummary(session_id, history) ==
    [session_id |-> session_id,
     conversation_count |-> Len(history),
     last_updated |-> Last(history).timestamp,
     first_question |->
         FirstN(QuestionChars(history[1].question), FirstQuestionLen) \o Ellipsis]

list_all_sessions ==
    /\ LET sessions == {SessionSummary(s, conversation_store[s]) :
                           s \in {x \in DOMAIN conversation_store :
                                     conversation_store[x] # <<>>}}
       IN  response' = Resp("list", 200, "",
                            [active_sessions |-> Cardinality(sessions),
                             sessions |-> sessions])
    /\ UNCHANGED <<system_ready, ingesting, vectorstore, chroma_db, documents,
                   conversation_store, clock, askcall, streams>>

\* a clear_all that reports the sessions left after it
clear_all_conversations_counts_after ==
    /\ conversation_store' = <<>>
    /\ streams' = Detach(streams, conversation_store, DOMAIN conversation_store)
    /\ response' = Resp("clear_all", 200, "",
                        [sessions_cleared |-> Cardinality(DOMAIN conversation_store')])
    /\ UNCHANGED <<system_ready, ingesting, vectorstore, chroma_db, documents, clock, askcall>>

clear_all_conversations ==
    /\ conversation_store' = <<>>
    /\ streams' = Detach(streams, conversation_store, DOMAIN conversation_store)
    /\ response' = Resp("clear_all", 200, "",
                        [sessions_cleared |-> Cardinality(DOMAIN conversation_store)])
    /\ UNCHANGED <<system_ready, ingesting, vectorstore, chroma_db, documents, clock, askcall>>

----------------------------------------------------------------------------
(* main.py: the two statements that store a turn, taken one at a time; the
   conversation endpoints run in the thread pool and can run in between *)

\* if session_id not in conversation_store: conversation_store[session_id] = []
CreateIfAbsent(store, session_id) ==
    [s \in DOMAIN store \cup {session_id} |-> GetHistory(store, s)]

\* ask_question, lines 377-389: up to the creation of the session's list
ask_store_begin ==
    /\ askcall.pc = "called"
    /\ LET out == askcall.out
           result == out.result
       IN  IF out.raised
           THEN /\ response' = Resp("ask", 500, "Error processing question", NoBody)
                /\ askcall' = IdleAsk
                /\ UNCHANGED conversation_store
           ELSE IF "error" \in result.keys
           THEN /\ response' = Resp("ask", 400, "System not initialized. Please load documents first.", NoBody)
                /\ askcall' = IdleAsk
                /\ UNCHANGED conversation_store
           ELSE /\ conversation_store' =
                      CreateIfAbsent(conversation_store, askcall.session_id)
                /\ askcall' = [askcall EXCEPT !.pc = "append"]
                /\ UNCHANGED response
    /\ UNCHANGED <<system_ready, ingesting, vectorstore, chroma_db, documents, clock,
                   streams>>

\* ask_question, lines 390-403: conversation_store[session_id].append(...);
\* a KeyError is caught by the except clause
ask_store_append ==
    /\ askcall.pc = "append"
    /\ LET result == askcall.out.result IN
       IF askcall.session_id \in DOMAIN conversation_store
       THEN /\ conversation_store' =
                  [conversation_store EXCEPT ![askcall.session_id] =
                      Append(@, Entry(result.question, result.answer,
                                      result.sources, clock + 1))]
            /\ clock' = clock + 1
            /\ response' = Resp("ask", 200, "",
                                [question |-> result.question,
                                 answer |-> result.answer,
                                 sources |-> result.sources,
                                 session_id |-> askcall.session_id])
       ELSE /\ response' = Resp("ask", 500, "Error processing question", NoBody)
            /\ UNCHANGED <<conversation_store, clock>>
    /\ askcall' = IdleAsk
    /\ UNCHANGED <<system_ready, ingesting, vectorstore, chroma_db, documents, streams>>

\* generate(), lines 460-471: resumed after the done event, up to the
\* creation of the session's list (or to the end, if nothing is stored)
stream_store_begin(r) ==
    /\ LoopFree
    /\ LET st == streams[r] IN
       \/ /\ st.pc = "yield"
          /\ IsDone(Last(st.events))
          /\ IF ShouldStore(st)
             THEN /\ conversation_store' =
                        CreateIfAbsent(conversation_store, st.session_id)
                  /\ streams' = [streams EXCEPT ![r].pc = "append"]
             ELSE /\ streams' = [streams EXCEPT ![r] = Close(st)]
                  /\ UNCHANGED conversation_store
       \/ /\ st.pc = "yield_error"
          /\ streams' = [streams EXCEPT ![r] = Close(st)]
          /\ UNCHANGED conversation_store
    /\ UNCHANGED <<system_ready, ingesting, vectorstore, chroma_db, documents, clock,
                   askcall, response>>

\* generate(), lines 472-477: conversation_store[session_id].append(...);
\* a KeyError is caught by the except clause, which yields its own event
stream_store_append(r) ==
    /\ streams[r].pc = "append"
    /\ LET st == streams[r] IN
       IF st.session_id \in DOMAIN conversation_store
       THEN /\ conversation_store' =
                  [conversation_store EXCEPT ![st.session_id] =
                      Append(@, StreamEntry(st, clock + 1))]
            /\ clock' = clock + 1
            /\ streams' = [streams EXCEPT ![r] = Close(st)]
       ELSE /\ streams' = [streams EXCEPT ![r] = ForwardError(st, <<"KeyError">>)]
            /\ UNCHANGED <<conversation_store, clock>>
    /\ UNCHANGED <<system_ready, ingesting, vectorstore, chroma_db, documents,
                   askcall, response>>

----------------------------------------------------------------------------
(* main.py: documents and system management *)

\* a health report that always says ready
HealthStatusAlwaysReady(ready) == "ready"
\* "ready" if system_ready else "not_initialized"
HealthStatus(ready) == IF ready THEN "ready" ELSE "not_initialized"

\* GET /health (thread pool)
health_check ==
    /\ response' = Resp("health", 200, "",
                        [status |-> HealthStatus(system_ready),
                         system_ready |-> system_ready,
                         documents_count |-> Cardinality(documents)])
    /\ UNCHANGED <<system_ready, ingesting, vectorstore, chroma_db, documents,
                   conversation_store, clock, askcall, streams>>

\* DELETE /documents/{filename} (thread pool)
delete_document(f) ==
    /\ IF f \notin documents
       THEN /\ response' = Resp("delete_document", 404, "Document not found", NoBody)
            /\ UNCHANGED documents
       ELSE /\ documents' = documents \ {f}
            /\ response' = Resp("delete_document", 200, "", NoBody)
    /\ UNCHANGED <<system_ready, ingesting, vectorstore, chroma_db, conversation_store, clock,
                   askcall, streams>>

upload_document(f) ==
    /\ LoopFree
    /\ IF ~Supported(f)
       THEN /\ response' = Resp("upload", 400, "File type not supported", NoBody)
            /\ UNCHANGED documents
       ELSE /\ documents' = documents \cup {f}
            /\ response' = Resp("upload", 200, "", NoBody)
    /\ UNCHANGED <<system_ready, ingesting, vectorstore, chroma_db, conversation_store, clock,
                   askcall, streams>>

\* load_documents: hidden and unsupported files are skipped, and so is a
\* file whose loader raises (unreadable is the set of those)
load_documents(dir, unreadable) ==
    {f \in dir : ~Hidden(f) /\ Supported(f) /\ f \notin unreadable}

\* create_vectorstore: Chroma.from_documents opens the collection persisted
\* under db_path and adds the chunks to it; what the collection already holds
\* stays in it.  The collection is modelled as the set of its distinct chunks.
create_vectorstore(persisted, chunks) == persisted \cup chunks

\* an ingestion that succeeds whenever the embedding does
IngestionSucceededUnlessEmbedding(loaded, embedOk) == embedOk
\* initialize_from_documents returns: something was loaded (lines 235-239) and
\* nothing raised while splitting and embedding
IngestionSucceeded(loaded, embedOk) == loaded # {} /\ embedOk

\* the flag is left as it was
ReadyAfterFailureKept == system_ready
\* main.py lines 337-338: system_ready = False in the except clause
ReadyAfterFailure == FALSE

\* a directory check that marks the system ready
NoDocumentsSetsReady ==
    /\ documents = {}
    /\ system_ready' = TRUE
    /\ response' = Resp("initialize", 400, "No documents found", NoBody)
    /\ UNCHANGED <<vectorstore, chroma_db>>
\* a directory check that clears the flag
NoDocumentsClearsFlag ==
    /\ documents = {}
    /\ system_ready' = FALSE
    /\ response' = Resp("initialize", 400, "No documents found", NoBody)
    /\ UNCHANGED <<vectorstore, chroma_db>>
\* lines 301-307: the directory check
NoDocuments ==
    /\ documents = {}
    /\ response' = Resp("initialize", 400, "No documents found", NoBody)
    /\ UNCHANGED <<system_ready, vectorstore, chroma_db>>

\* initialize_from_documents followed by lines 317-342 of initialize_system
\* embedOk: Chroma.from_documents returned
Ingest ==
    \E unreadable \in SUBSET documents, embedOk \in BOOLEAN :
       LET loaded == load_documents(documents, unreadable) IN
       IF ~IngestionSucceeded(loaded, embedOk)
       THEN /\ system_ready' = ReadyAfterFailure
            /\ response' = Resp("initialize", 500, "Error during initialization", NoBody)
            /\ UNCHANGED <<vectorstore, chroma_db>>
       ELSE /\ chroma_db' = create_vectorstore(chroma_db,
                                 UNION {ChunksOf(f) : f \in loaded})
            /\ vectorstore' = Chroma(chroma_db')
            /\ system_ready' = TRUE
            /\ response' = Resp("initialize", 200, "", NoBody)

\* POST /initialize from its first line to its response; the event loop
\* runs no other handler in between
initialize_system ==
    /\ LoopFree
    /\ \/ NoDocuments
       \/ documents # {} /\ Ingest
    /\ UNCHANGED <<ingesting, documents, conversation_store, clock, askcall, streams>>

\* POST /initialize in two steps, for what can happen while it runs: the
\* handler passes the directory check and enters initialize_from_documents ...
initialize_begin ==
    /\ LoopFree
    /\ \/ NoDocuments /\ UNCHANGED ingesting
       \/ /\ documents # {}
          /\ ingesting' = ingesting + 1
          /\ UNCHANGED <<system_ready, vectorstore, chroma_db, response>>
    /\ UNCHANGED <<documents, conversation_store, clock, askcall, streams>>

\* ... and the ingestion ends, with the files ./documents holds by then
initialize_end ==
    /\ ingesting > 0
    /\ Ingest
    /\ ingesting' = ingesting - 1
    /\ UNCHANGED <<documents, conversation_store, clock, askcall, streams>>

\* a reset that also empties the conversation store
reset_system_clears_sessions ==
    /\ LoopFree
    /\ documents' = {}
    /\ chroma_db' = {}
    /\ system_ready' = FALSE
    /\ conversation_store' = <<>>
    /\ streams' = Detach(streams, conversation_store, DOMAIN conversation_store)
    /\ response' = Resp("reset", 200, "", NoBody)
    /\ UNCHANGED <<ingesting, vectorstore, clock, askcall>>

\* a reset that forgets the flag
reset_system_keeps_flag ==
    /\ LoopFree
    /\ documents' = {}
    /\ chroma_db' = {}
    /\ response' = Resp("reset", 200, "", NoBody)
    /\ UNCHANGED <<system_ready, ingesting, vectorstore, conversation_store, clock,
                   askcall, streams>>

\* lines 589-606: ./documents is emptied, ./chroma_db is removed and the flag is
\* cleared; rag_system.vectorstore keeps the object it has
reset_system ==
    /\ LoopFree
    /\ \/ /\ documents' = {}
          /\ chroma_db' = {}
          /\ system_ready' = FALSE
          /\ response' = Resp("reset", 200, "", NoBody)
       \/ /\ response' = Resp("reset", 500, "Error resetting system", NoBody)
          /\ UNCHANGED <<documents, chroma_db, system_ready>>
    /\ UNCHANGED <<ingesting, vectorstore, conversation_store, clock, askcall, streams>>

----------------------------------------------------------------------------

Next ==
    \/ \E q \in Questions, sid \in RequestSessionIds : ask_question(q, sid)
    \/ ask_question_return
    \/ \E r \in DOMAIN streams, q \in Questions, sid \in RequestSessionIds :
          ask_question_stream(r, q, sid)
    \/ \E r \in DOMAIN streams : stream_start(r)
    \/ \E r \in DOMAIN streams : stream_next(r)
    \/ \E r \in DOMAIN streams : stream_finish(r)
    \/ \E r \in DOMAIN streams : stream_disconnect(r)
    \/ \E s \in SessionIds : clear_conversation_history(s)
    \/ clear_all_conversations
    \/ \E f \in Files : upload_document(f)
    \/ initialize_system
    \/ reset_system

Spec == Init /\ [][Next]_vars

\* Every endpoint of the application, with questions that carry the
\* client's own session id
NextSystem ==
    \/ \E q \in Questions, sid \in ClientSessionIds : ask_question(q, sid)
    \/ ask_question_return
    \/ \E r \in DOMAIN streams, q \in Questions, sid \in ClientSessionIds :
          ask_question_stream(r, q, sid)
    \/ \E r \in DOMAIN streams : stream_start(r)
    \/ \E r \in DOMAIN streams : stream_next(r)
    \/ \E r \in DOMAIN streams : stream_finish(r)
    \/ \E r \in DOMAIN streams : stream_disconnect(r)
    \/ \E s \in ClientSessionIds : get_conversation_history(s)
    \/ \E s \in ClientSessionIds : clear_conversation_history(s)
    \/ clear_all_conversations
    \/ \E f \in Files : upload_document(f)
    \/ \E f \in Files : delete_document(f)
    \/ initialize_system
    \/ reset_system

SpecSystem == Init /\ [][NextSystem]_vars

\* The documents, the index and the atomic ask, with more file names
NextIngest ==
    \/ \E f \in IngestFiles : upload_document(f)
    \/ \E f \in IngestFiles : delete_document(f)
    \/ initialize_system
    \/ reset_system
    \/ \E q \in Questions, sid \in RequestSessionIds : ask_question(q, sid)
    \/ ask_question_return

SpecIngest == Init /\ [][NextIngest]_vars

\* The atomic ask and the history endpoints on a ready system whose session
\* s1 already holds n turns, stored before the clock of the model starts
\* (their timestamps are the n instants up to 0).
PastAnswer(i) == [j \in 1..i |-> "a"]
PastTurns(n) ==
    LET docs == retrieve_relevant_docs(Chroma(ChunksOf("a.txt")),
                    <<CHOOSE c \in ChunksOf("a.txt") : TRUE>>)
    IN  [i \in 1..n |-> Entry("q1", PastAnswer(i), FormatSources(docs), i - n)]

InitHistory ==
    /\ system_ready = TRUE
    /\ documents = {"a.txt"}
    /\ chroma_db = ChunksOf("a.txt")
    /\ ingesting = 0
    /\ vectorstore = Chroma(chroma_db)
    /\ \E n \in 0..MaxTurns :
          conversation_store = IF n = 0 THEN <<>> ELSE [s \in {"s1"} |-> PastTurns(n)]
    /\ clock = 0
    /\ askcall = IdleAsk
    /\ streams = [r \in StreamSlots |-> IdleStream]
    /\ response = Resp("none", 0, "", NoBody)

NextHistory ==
    \/ \E q \in Questions, sid \in RequestSessionIds : ask_question(q, sid)
    \/ ask_question_return
    \/ \E s \in SessionIds : get_conversation_history(s)
    \/ \E s \in SessionIds : clear_conversation_history(s)

SpecHistory == InitHistory /\ [][NextHistory]_vars

\* Conversations of several sessions on a ready system: questions with the
\* client's id, with an id the server handed out, or with none.  The
\* client's session is new or holds one turn stored earlier.
InitReady ==
    /\ system_ready = TRUE
    /\ documents = {"a.txt"}
    /\ chroma_db = ChunksOf("a.txt")
    /\ ingesting = 0
    /\ vectorstore = Chroma(chroma_db)
    /\ \E n \in 0..1 :
          conversation_store = IF n = 0 THEN <<>> ELSE [s \in {"s1"} |-> PastTurns(n)]
    /\ clock = 0
    /\ askcall = IdleAsk
    /\ streams = [r \in StreamSlots |-> IdleStream]
    /\ response = Resp("none", 0, "", NoBody)

NextSessions ==
    \/ \E q \in Questions, sid \in RequestSessionIds : ask_question(q, sid)
    \/ ask_question_return
    \/ \E r \in DOMAIN streams, q \in Questions, sid \in RequestSessionIds :
          ask_question_stream(r, q, sid)
    \/ \E r \in DOMAIN streams : stream_start(r)
    \/ \E r \in DOMAIN streams : stream_next(r)
    \/ \E r \in DOMAIN streams : stream_finish(r)
    \/ \E r \in DOMAIN streams : stream_disconnect(r)
    \/ \E s \in SessionIds : get_conversation_history(s)
    \/ \E s \in SessionIds : clear_conversation_history(s)
    \/ clear_all_conversations
    \/ list_all_sessions

SpecSessions == InitReady /\ [][NextSessions]_vars

\* Readiness as the health endpoint reports it and as the question endpoints
\* apply it, under every document and system operation
NextHealth ==
    \/ health_check
    \/ \E f \in Files : upload_document(f)
    \/ \E f \in Files : delete_document(f)
    \/ initialize_system
    \/ reset_system
    \/ \E q \in Questions, sid \in ClientSessionIds : ask_question(q, sid)
    \/ ask_question_return
    \/ \E r \in DOMAIN streams, q \in Questions, sid \in ClientSessionIds :
          ask_question_stream(r, q, sid)
    \/ \E r \in DOMAIN streams : stream_start(r)
    \/ \E r \in DOMAIN streams : stream_next(r)
    \/ \E r \in DOMAIN streams : stream_finish(r)

SpecHealth == Init /\ [][NextHealth]_vars

\* Questions over an index that holds a short chunk and a chunk longer than
\* a source preview
InitPreview ==
    /\ system_ready = TRUE
    /\ documents = {"a.txt", "long.txt"}
    /\ chroma_db = ChunksOf("a.txt") \cup ChunksOf("long.txt")
    /\ ingesting = 0
    /\ vectorstore = Chroma(chroma_db)
    /\ conversation_store = <<>>
    /\ clock = 0
    /\ askcall = IdleAsk
    /\ streams = [r \in StreamSlots |-> IdleStream]
    /\ response = Resp("none", 0, "", NoBody)

NextPreview ==
    \/ \E q \in Questions, sid \in ClientSessionIds : ask_question(q, sid)
    \/ ask_question_return
    \/ \E r \in DOMAIN streams, q \in Questions, sid \in ClientSessionIds :
          ask_question_stream(r, q, sid)
    \/ \E r \in DOMAIN streams : stream_start(r)
    \/ \E r \in DOMAIN streams : stream_next(r)
    \/ \E r \in DOMAIN streams : stream_finish(r)

SpecPreview == InitPreview /\ [][NextPreview]_vars

\* Two streaming requests and the atomic ask of one session at a time
ConcurrentSlots == {"r1", "r2"}

InitConcurrent ==
    /\ system_ready = TRUE
    /\ documents = {"a.txt"}
    /\ chroma_db = ChunksOf("a.txt")
    /\ ingesting = 0
    /\ vectorstore = Chroma(chroma_db)
    /\ conversation_store = <<>>
    /\ clock = 0
    /\ askcall = IdleAsk
    /\ streams = [r \in ConcurrentSlots |-> IdleStream]
    /\ response = Resp("none", 0, "", NoBody)

SpecConcurrent == InitConcurrent /\ [][NextPreview]_vars

\* The ingestion as a handler that takes time: requests that arrive while
\* it runs
NextIngestion ==
    \/ \E f \in Files : upload_document(f)
    \/ \E f \in Files : delete_document(f)
    \/ initialize_begin
    \/ initialize_end
    \/ reset_system
    \/ health_check
    \/ \E q \in Questions, sid \in ClientSessionIds : ask_question(q, sid)
    \/ ask_question_return

SpecIngestion == Init /\ [][NextIngestion]_vars

\* a call of LocalRAGSystem.retrieve_relevant_docs and what leaves it: the
\* list it returns, or the exception of the vector store
retrieve(vs, store) ==
    IF ~Attached(vs) THEN [error |-> "none", docs |-> <<>>]
    ELSE IF store.raise THEN [error |-> "vector store error", docs |-> <<>>]
    ELSE [error |-> "none", docs |-> retrieve_relevant_docs(vs, store.hits)]

\* the engine's retrieval called on the engine as it stands
retrieve_call ==
    /\ LoopFree
    /\ \E store \in StoreOutcomes(vectorstore, K) :
          response' = Resp("retrieve", 0, "", retrieve(vectorstore, store))
    /\ UNCHANGED <<system_ready, ingesting, vectorstore, chroma_db, documents,
                   conversation_store, clock, askcall, streams>>

\* The retrieval over every index the document operations can build
NextRetrieve ==
    \/ \E f \in IngestFiles : upload_document(f)
    \/ \E f \in IngestFiles : delete_document(f)
    \/ initialize_system
    \/ reset_system
    \/ retrieve_call

SpecRetrieve == Init /\ [][NextRetrieve]_vars

\* The question endpoints with the storing of a turn taken statement by
\* statement, and the clearing endpoints of the thread pool
NextRace ==
    \/ \E q \in Questions, sid \in ClientSessionIds : ask_question(q, sid)
    \/ ask_store_begin
    \/ ask_store_append
    \/ \E r \in DOMAIN streams, q \in Questions, sid \in ClientSessionIds :
          ask_question_stream(r, q, sid)
    \/ \E r \in DOMAIN streams : stream_start(r)
    \/ \E r \in DOMAIN streams : stream_next(r)
    \/ \E r \in DOMAIN streams : stream_store_begin(r)
    \/ \E r \in DOMAIN streams : stream_store_append(r)
    \/ \E s \in ClientSessionIds : clear_conversation_history(s)
    \/ clear_all_conversations

SpecRace == InitReady /\ [][NextRace]_vars

\* The session list, with a short and a long question
SessionQuestions == {"q1", LongQuestion}

NextList ==
    \/ \E q \in SessionQuestions, sid \in RequestSessionIds : ask_question(q, sid)
    \/ ask_question_return
    \/ \E s \in SessionIds : clear_conversation_history(s)
    \/ list_all_sessions

SpecList == InitReady /\ [][NextList]_vars

----------------------------------------------------------------------------
(* Properties *)

AskStep == \E q \in Questions, sid \in RequestSessionIds : ask_question(q, sid)
AskStreamStep ==
    \E r \in DOMAIN streams, q \in Questions, sid \in RequestSessionIds :
        ask_question_stream(r, q, sid)

\* C1: while system_ready is false, every POST /ask and POST /ask/stream is
\* answered with the not-ready error (status 400), no request is started (so
\* the vector store and the generation service are not called) and the
\* conversation store is left as it was.
C1_NotReadyRejects ==
    [][(~system_ready /\ (AskStep \/ AskStreamStep))
        => /\ response'.status = 400
           /\ response'.detail = "System not initialized. Please call POST /initialize first."
           /\ UNCHANGED <<conversation_store, askcall, streams, clock>>]_vars

\* a question was rejected as not ready after a reset, with turns in the store
C1_Witness ==
    /\ ~system_ready
    /\ Attached(vectorstore)
    /\ response.op \in {"ask", "ask_stream"}
    /\ response.status = 400
    /\ DOMAIN conversation_store # {}

\* the stream of slot r is consumed to its end: generate() is resumed and returns
StreamEnds(r) ==
    /\ stream_finish(r) \/ stream_next(r)
    /\ streams[r].pc # "idle"
    /\ streams'[r].pc = "idle"

\* C2: when the generation service fails during a stream, the stream ends
\* with an event that carries an error and done = true, and the store is
\* not changed by the stream.
C2_StreamFailureIsReported ==
    [][\A r \in DOMAIN streams :
        (StreamEnds(r) /\ streams[r].genFailed)
        => /\ "error" \in Last(streams[r].events).keys
           /\ IsDone(Last(streams[r].events))
           /\ UNCHANGED conversation_store]_vars

\* C3: when the generation service fails in atomic mode, POST /ask answers
\* with an error status after one call of the service, and the store is not
\* changed.
C3_AskFailureIsReported ==
    [][(ask_question_return /\ askcall.gen = "failed")
        => /\ response'.status >= 400
           /\ askcall.out.genCalls = 1
           /\ UNCHANGED conversation_store]_vars

\* C4: a stream that is consumed to its end ends with an event whose done
\* flag is true; every event before the last one carries done = false, so
\* nothing is emitted after a done = true event.
EarlierEventsNotDone ==
    \A r \in DOMAIN streams :
        \A i \in 1..(Len(streams[r].events) - 1) :
            "done" \in streams[r].events[i].keys /\ ~streams[r].events[i].done

IsFragmentEvent(ev) == "answer_chunk" \in ev.keys /\ "sources" \notin ev.keys
FragmentTexts(events) ==
    LET frags == SelectSeq(events, IsFragmentEvent)
    IN  [i \in 1..Len(frags) |-> frags[i].answer_chunk]

\* C5: in a stream with non-empty retrieval the fragment events carry
\* exactly the fragments the generation service delivered, in order.
C5_FragmentsAsDelivered ==
    \A r \in DOMAIN streams :
        streams[r].retrieval = "hits"
        => FragmentTexts(streams[r].events) = streams[r].delivered

\* C6: in a stream with non-empty retrieval the first event carries the
\* question and the sources with done = false and no answer text, and no
\* later event carries sources.
C6_SourcesFirstOnce ==
    \A r \in DOMAIN streams :
        streams[r].retrieval = "hits"
        => LET events == streams[r].events IN
           /\ events # <<>>
           /\ {"question", "sources", "done"} \subseteq events[1].keys
           /\ events[1].question = streams[r].question
           /\ events[1].sources # <<>>
           /\ ~events[1].done
           /\ events[1].answer_chunk = <<>>
           /\ \A i \in 2..Len(events) : "sources" \notin events[i].keys

\* after the sources event a fragment with text has been sent
C6_Witness ==
    \E r \in DOMAIN streams :
        /\ streams[r].retrieval = "hits"
        /\ \E i \in 2..Len(streams[r].events) : streams[r].events[i].answer_chunk # <<>>

\* the store after the step is the store before it with one turn added at
\* the end of session sid, and that turn has the given fields
OneTurnAppended(sid, question, answer, sources) ==
    LET before == GetHistory(conversation_store, sid) IN
    /\ DOMAIN conversation_store' = DOMAIN conversation_store \cup {sid}
    /\ \A s \in DOMAIN conversation_store \ {sid} :
          conversation_store'[s] = conversation_store[s]
    /\ Len(conversation_store'[sid]) = Len(before) + 1
    /\ SubSeq(conversation_store'[sid], 1, Len(before)) = before
    /\ Last(conversation_store'[sid]).question = question
    /\ Last(conversation_store'[sid]).answer = answer
    /\ Last(conversation_store'[sid]).sources = sources

\* the answer_chunk values of all events that carry one, in emission order
ForwardedChunks(events) ==
    LET carrying == SelectSeq(events, LAMBDA ev : "answer_chunk" \in ev.keys)
    IN  [i \in 1..Len(carrying) |-> carrying[i].answer_chunk]

\* stream r ends after its plain done event, retrieval having found chunks
CompletesNormally(r) ==
    /\ StreamEnds(r)
    /\ streams[r].retrieval = "hits"
    /\ IsDone(Last(streams[r].events))
    /\ "error" \notin Last(streams[r].events).keys

\* a step of stream r that does not end it
StreamContinues(r) ==
    /\ stream_start(r) \/ stream_next(r)
    /\ streams'[r].pc # "idle"

HitsOf(docs) ==
    [i \in 1..Len(docs) |->
        [content |-> docs[i].content, filename |-> docs[i].metadata.filename,
         score |-> docs[i].relevance_score]]

\* what the atomic ask returns for the question, the chunks and the history
\* of stream st when the generation service produces the text the stream got
AtomicResultFor(st) ==
    ask(Chroma({}), st.question, History(st),
        [raise |-> FALSE, hits |-> HitsOf(st.docs)],
        [failed |-> FALSE, text |-> Concat(st.delivered)]).result

\* C8: for a successful stream, the concatenation of the forwarded
\* answer_chunk fragments equals the answer the atomic ask returns for the
\* same question, chunks, history and generated text.
C8_ConcatEqualsAtomicAnswer ==
    \A r \in DOMAIN streams :
        (/\ streams[r].retrieval = "hits"
         /\ ~streams[r].genFailed
         /\ IsDone(Last(streams[r].events)))
        => Concat(ForwardedChunks(streams[r].events)) = AtomicResultFor(streams[r]).answer

\* C9: when retrieval returns no chunk, the atomic ask answers 200 with the
\* fixed no-relevant-information answer and empty sources without calling
\* the generation service, and exactly one such turn is appended.
C9_AtomicFallback ==
    [][(ask_question_return /\ askcall.retrieval = "empty")
        => /\ response'.status = 200
           /\ response'.body.answer =
                 <<"I couldn't find any relevant information in the documents.">>
           /\ response'.body.sources = <<>>
           /\ askcall.out.genCalls = 0
           /\ askcall.gen = "none"
           /\ OneTurnAppended(askcall.session_id, askcall.question,
                 <<"I couldn't find any relevant information in the documents.">>,
                 <<>>)]_vars

\* a session holds an earlier turn followed by a fallback turn
C9_Witness ==
    \E sid \in DOMAIN conversation_store :
        /\ Len(conversation_store[sid]) >= 2
        /\ Last(conversation_store[sid]).answer =
              <<"I couldn't find any relevant information in the documents.">>
        /\ Last(conversation_store[sid]).sources = <<>>

\* C10: when retrieval returns no chunk, the stream is one event: the
\* fallback answer with empty sources and done = true, no answer_chunk, and
\* the generation service is not called.
C10_StreamFallback ==
    \A r \in DOMAIN streams :
        streams[r].retrieval = "empty"
        => /\ Len(streams[r].events) = 1
           /\ streams[r].events[1].keys = {"question", "answer", "sources", "done"}
           /\ streams[r].events[1].answer = <<"I couldn't find any relevant information.">>
           /\ streams[r].events[1].sources = <<>>
           /\ streams[r].events[1].question = streams[r].question
           /\ streams[r].events[1].done
           /\ streams[r].genCalls = 0
           /\ streams[r].delivered = <<>>

\* the fallback event of a stream is out while the store holds turns
C10_Witness ==
    \E r \in DOMAIN streams :
        /\ streams[r].retrieval = "empty"
        /\ streams[r].events # <<>>
        /\ conversation_store # <<>>

\* C11: a stream whose retrieval returns no chunk appends one turn with the
\* fallback answer and empty sources when it ends, and its fallback text is
\* the text of the atomic mode.
C11_StreamFallbackStored ==
    [][\A r \in DOMAIN streams :
         (StreamEnds(r) /\ streams[r].retrieval = "empty")
         => /\ streams[r].events[1].answer =
                  <<"I couldn't find any relevant information in the documents.">>
            /\ OneTurnAppended(streams[r].session_id, streams[r].question,
                               streams[r].events[1].answer, <<>>)]_vars

\* the terminal event of stream r has not been yielded yet
BeforeTerminal(r) ==
    streams[r].events = <<>> \/ ~IsDone(Last(streams[r].events))

\* C12: when the client disconnects before the terminal event, the generator
\* is closed (nothing more is pulled from the generation service) and the
\* store is left as it is; with the steps before the terminal event leaving
\* the store alone, no turn of that request is ever stored.
C12_DisconnectStoresNothing ==
    [][\A r \in DOMAIN streams :
         /\ (stream_disconnect(r) /\ BeforeTerminal(r))
               => /\ UNCHANGED conversation_store
                  /\ streams'[r].pc = "idle"
                  /\ streams'[r].llm = "none"
         /\ (StreamContinues(r) /\ BeforeTerminal(r)') => UNCHANGED conversation_store]_vars

\* a client went away after it had received answer text, and its session
\* holds no turn
C12_Witness ==
    /\ response.detail = "client disconnected"
    /\ response.body.answer # <<>>
    /\ response.body.session_id \notin DOMAIN conversation_store

\* C13: the flag starts false, and a step makes it true only if it is an
\* initialize that answers 200 and has built a non-empty index that
\* rag_system.vectorstore now refers to.
C13_ReadyOnlyByInitialize ==
    /\ ~system_ready
    /\ [][(~system_ready /\ system_ready')
            => /\ initialize_system
               /\ response'.op = "initialize"
               /\ response'.status = 200
               /\ chroma_db' # {}
               /\ vectorstore' = Chroma(chroma_db')]_vars

\* an initialize has made the system ready while the store holds a session
C13_Witness ==
    /\ system_ready
    /\ response.op = "initialize"
    /\ response.status = 200
    /\ DOMAIN conversation_store # {}

\* C14: a reset that succeeds clears the flag; while the flag is clear every
\* ask and ask_stream is rejected, and the flag stays clear until an
\* initialize answers 200; while it is set the questions are accepted.
ResetStep == reset_system /\ response'.op = "reset" /\ response'.status = 200

C14_ResetThenRejectUntilInitialize ==
    [][/\ (ResetStep /\ system_ready) => ~system_ready'
       /\ (~system_ready /\ (AskStep \/ AskStreamStep))
             => (response'.status = 400 /\ UNCHANGED <<askcall, streams>>)
       /\ (~system_ready /\ ~(response'.op = "initialize" /\ response'.status = 200))
             => ~system_ready'
       /\ (system_ready /\ AskStep) => askcall'.pc = "called"
       /\ (system_ready /\ AskStreamStep)
             => \E r \in DOMAIN streams : streams[r].pc = "idle" /\ streams'[r].pc = "start"]_vars

\* a reset has cleared the flag of a system that had been initialized
C14_Witness ==
    /\ response.op = "reset"
    /\ response.status = 200
    /\ ~system_ready
    /\ Attached(vectorstore)
    /\ chroma_db = {}

\* C15: an initialize that finds files but whose ingestion does not succeed
\* answers 500 and leaves the flag false, whatever it was; the only other
\* outcome is 200 with the flag true.
C15_FailedInitializeClearsFlag ==
    [][(initialize_system /\ documents # {})
        => \/ response'.status = 200 /\ system_ready'
           \/ response'.status = 500 /\ ~system_ready' /\ UNCHANGED vectorstore]_vars

\* an initialize has failed on a system that had an index
C15_Witness ==
    /\ response.op = "initialize"
    /\ response.status = 500
    /\ ~system_ready
    /\ Attached(vectorstore)
    /\ documents # {}

\* the chunks of the files now in ./documents that load_documents can load
ChunksOfDirectory == UNION {ChunksOf(f) : f \in load_documents(documents, {})}

\* C16: an initialize on a ready system that succeeds leaves it ready, and
\* the index then holds chunks of the files now in ./documents only.
C16_ReinitializeReplacesIndex ==
    [][(initialize_system /\ system_ready /\ response'.status = 200)
        => /\ system_ready'
           /\ Attached(vectorstore')
           /\ vectorstore'.chunks \subseteq ChunksOfDirectory]_vars

\* C17: an initialize with no loadable file in ./documents (none at all, or
\* only hidden files and files without a loader) answers 400.
C17_NoDocumentsIsClientError ==
    [][(initialize_system /\ load_documents(documents, {}) = {})
        => response'.status = 400]_vars

\* C18: the prompt of an accepted atomic ask in a session with n turns holds
\* exactly the last min(n, 3) turns of that session as user/assistant pairs,
\* oldest first.
C18_PromptHistoryWindow ==
    [][(AskStep /\ askcall'.pc = "called" /\ askcall'.out.genCalls = 1)
        => LET h == GetHistory(conversation_store, askcall'.session_id)
               n == Len(h)
               m == IF n < 3 THEN n ELSE 3
               window == askcall'.out.prompt.history
           IN  /\ Len(window) = m
               /\ \A i \in 1..m :
                     /\ window[i].user = h[n - m + i].question
                     /\ window[i].assistant = h[n - m + i].answer]_vars

\* an ask in a session with more than three turns has composed its prompt
C18_Witness ==
    /\ askcall.pc = "called"
    /\ askcall.out.genCalls = 1
    /\ Len(GetHistory(conversation_store, askcall.session_id)) > 3
    /\ Len(askcall.out.prompt.history) = 3

\* the timestamps of every session are in increasing order
InAskingOrder ==
    \A sid \in DOMAIN conversation_store :
        \A i, j \in 1..Len(conversation_store[sid]) :
            i < j => conversation_store[sid][i].timestamp < conversation_store[sid][j].timestamp

\* C19: every successful atomic ask adds exactly one turn at the end of its
\* session, equal field for field to what the ask returned and stamped with
\* the time of the append; the turns of a session are in asking order; and
\* reading a session returns its turns as they are, with their count.
C19_AppendReadRoundTrip ==
    /\ []InAskingOrder
    /\ [][/\ (ask_question_return /\ response'.status = 200)
               => /\ OneTurnAppended(askcall.session_id, response'.body.question,
                                     response'.body.answer, response'.body.sources)
                  /\ Last(conversation_store'[askcall.session_id]).timestamp = clock'
                  /\ response'.body.session_id = askcall.session_id
                  /\ response'.body.question = askcall.question
          /\ \A s \in DOMAIN conversation_store :
               get_conversation_history(s)
               => /\ response'.status = 200
                  /\ response'.body.session_id = s
                  /\ response'.body.conversations = conversation_store[s]
                  /\ response'.body.conversation_count = Len(conversation_store[s])]_vars

\* a session that started with turns and got two more has been read
C19_Witness ==
    /\ response.op = "history"
    /\ response.status = 200
    /\ response.body.conversation_count >= 3
    /\ response.body.conversations = conversation_store[response.body.session_id]
    /\ Last(response.body.conversations).timestamp = 2

\* C20: reading or clearing a session that is not in the store answers 404
\* and leaves the store as it is; clearing a session that is in the store
\* removes it, and only it, so that reading it next answers 404.
C20_UnknownSessionNotFound ==
    [][\A s \in SessionIds :
         /\ (get_conversation_history(s) /\ s \notin DOMAIN conversation_store)
               => (response'.status = 404 /\ UNCHANGED conversation_store)
         /\ (clear_conversation_history(s) /\ s \notin DOMAIN conversation_store)
               => (response'.status = 404 /\ UNCHANGED conversation_store)
         /\ (clear_conversation_history(s) /\ s \in DOMAIN conversation_store)
               => /\ response'.status = 200
                  /\ DOMAIN conversation_store' = DOMAIN conversation_store \ {s}
                  /\ \A t \in DOMAIN conversation_store' :
                        conversation_store'[t] = conversation_store[t]]_vars

\* a history read has answered 404 for a session that was cleared: the
\* store is empty after turns had been stored
C20_Witness ==
    /\ response.op = "history"
    /\ response.status = 404
    /\ DOMAIN conversation_store = {}
    /\ clock > 0

----------------------------------------------------------------------------

\* POST /ask has passed its checks and is inside rag_system.ask
AskStarts == askcall.pc = "idle" /\ askcall'.pc = "called"
\* POST /ask/stream has returned its StreamingResponse for slot r
StreamStarts(r) == streams[r].pc = "idle" /\ streams'[r].pc = "start"
\* generate() of slot r stores its turn
StreamStores(r) ==
    streams[r].pc = "yield" /\ streams'[r].pc = "idle" /\ clock' = clock + 1
\* the session of the stream was not in the store when the request came
\* (a session deleted later leaves its turns in st.history)
StartedUnknown(st) == ~st.live /\ st.history = <<>>
\* POST /ask returns its answer
AskReturnsAnswer ==
    askcall.pc = "called" /\ askcall'.pc = "idle" /\ response'.status = 200

C22_ClearAllCountsAndEmpties ==
    [][/\ clear_all_conversations
            => /\ response'.op = "clear_all" /\ response'.status = 200
               /\ response'.body.sessions_cleared = Cardinality(DOMAIN conversation_store)
               /\ DOMAIN conversation_store' = {}
       /\ (clear_all_conversations /\ DOMAIN conversation_store = {})
            => response'.body.sessions_cleared = 0
       /\ (list_all_sessions /\ DOMAIN conversation_store = {})
            => response'.body.active_sessions = 0 /\ response'.body.sessions = {}
      ]_vars

\* a clear_all has removed two sessions
C22_Witness ==
    /\ response.op = "clear_all"
    /\ response.body.sessions_cleared = 2
    /\ DOMAIN conversation_store = {}

\* the sessions whose history the step changes
Changed ==
    {s \in SessionIds :
        GetHistory(conversation_store, s) # GetHistory(conversation_store', s)}
\* the history lines of a prompt made of the given turns
PromptLines(turns) ==
    [i \in 1..Len(turns) |-> [user |-> turns[i].question, assistant |-> turns[i].answer]]

\* C26: sessions do not interact.  An ask that returns, a stream that stores
\* its turn and a clear of one session change the history of no other
\* session, and the history lines of a prompt composed for a question of
\* session A are the last turns of A's own list.
C26_SessionsDoNotInteract ==
    [][/\ (askcall.pc = "called" /\ askcall'.pc = "idle")
            => Changed \subseteq {askcall.session_id}
       /\ \A r \in DOMAIN streams :
            /\ (streams[r].pc # "idle" /\ streams'[r].pc = "idle")
                  => Changed \subseteq {streams[r].session_id}
            /\ (streams[r].pc # "idle" /\ streams'[r].genCalls = streams[r].genCalls + 1)
                  => streams'[r].prompt.history =
                        PromptLines(LastN(History(streams[r]), HistoryWindow))
       /\ \A a \in SessionIds :
            clear_conversation_history(a) => Changed \subseteq {a}
       /\ (AskStarts /\ askcall'.out.genCalls = 1)
            => askcall'.out.prompt.history =
                  PromptLines(LastN(GetHistory(conversation_store, askcall'.session_id),
                                    HistoryWindow))
      ]_vars

\* an ask of session s1 is under way whose prompt carries the one turn s1
\* holds, while another session holds a turn too
C26_Witness ==
    /\ askcall.pc = "called" /\ askcall.session_id = "s1"
    /\ Len(askcall.out.prompt.history) = 1
    /\ DOMAIN conversation_store = {"s1", "u1"}
    /\ Len(conversation_store["s1"]) = 1
    /\ Len(conversation_store["u1"]) = 1

\* the summaries of a session list that describe session s
SummariesOf(body, s) == {x \in body.sessions : x.session_id = s}

\* C29: GET /conversations reports one summary per session of the store:
\* active_sessions is the number of sessions, and the summary of a session
\* carries the number of its turns, the timestamp of its newest turn (no turn
\* of the session is later) and a preview made from the question of its
\* oldest turn.
C29_SessionListSummaries ==
    [][list_all_sessions =>
         /\ response'.op = "list" /\ response'.status = 200
         /\ response'.body.active_sessions = Cardinality(DOMAIN conversation_store)
         /\ Cardinality(response'.body.sessions) = Cardinality(DOMAIN conversation_store)
         /\ \A s \in DOMAIN conversation_store :
               LET history == conversation_store[s] IN
               \E x \in response'.body.sessions :
                  /\ SummariesOf(response'.body, s) = {x}
                  /\ x.conversation_count = Len(history)
                  /\ x.last_updated = history[Len(history)].timestamp
                  /\ \A i \in 1..Len(history) : history[i].timestamp <= x.last_updated
                  /\ x.first_question =
                        FirstN(QuestionChars(history[1].question), FirstQuestionLen)
                           \o Ellipsis
      ]_vars

\* a list has summarised a session of two turns whose oldest question is the
\* long one (its preview is cut) and whose newest question is the short one
C29_Witness ==
    /\ response.op = "list"
    /\ \E x \in response.body.sessions :
          /\ x.conversation_count = 2
          /\ Len(x.first_question) = FirstQuestionLen + 1
          /\ x.session_id \in DOMAIN conversation_store
          /\ Len(conversation_store[x.session_id]) = 2
          /\ conversation_store[x.session_id][1].question = LongQuestion
          /\ conversation_store[x.session_id][2].question = "q1"

\* C28: GET /health reports status "ready" with system_ready true exactly
\* when the flag is set and "not_initialized" with system_ready false
\* otherwise; the flag does not change without a newer response replacing the
\* report, and a question is accepted exactly when the flag is set, so the
\* latest health report says ready if and only if ask and ask_stream are
\* accepted.
C28_HealthMatchesReadiness ==
    /\ [](response.op = "health" =>
            /\ response.status = 200
            /\ response.body.system_ready = system_ready
            /\ response.body.status = (IF system_ready THEN "ready" ELSE "not_initialized"))
    /\ [][/\ AskStep => (system_ready <=> AskStarts)
          /\ AskStep => (~system_ready <=> response'.detail = NotReadyDetail)
          /\ AskStreamStep => (system_ready <=> \E r \in DOMAIN streams : StreamStarts(r))
          /\ AskStreamStep => (~system_ready <=> response'.detail = NotReadyDetail)
         ]_vars

\* health reports not_initialized for a system whose index is attached: an
\* initialize has failed after one that succeeded
C28_Witness ==
    /\ response.op = "health"
    /\ response.body.status = "not_initialized"
    /\ Attached(vectorstore)
    /\ chroma_db # {}

----------------------------------------------------------------------------

\* the chunks a prompt was composed from, with the score the index holds
\* for each
DocsOfPrompt(prompt) ==
    [i \in 1..Len(prompt.context) |->
        [content |-> prompt.context[i].content,
         metadata |-> [filename |-> prompt.context[i].filename],
         relevance_score |->
            (CHOOSE c \in chroma_db : /\ c.content = prompt.context[i].content
                                      /\ c.filename = prompt.context[i].filename).score]]

\* the preview is the first PreviewLen characters of the content, or all of
\* them if there are fewer, followed by the ellipsis
IsPreviewOf(preview, content) ==
    /\ Len(preview) = Min(Len(content), PreviewLen) + 1
    /\ \A j \in 1..(Len(preview) - 1) : preview[j] = content[j]
    /\ preview[Len(preview)] = "..."

\* one source per chunk, in the order of the chunks, each with the chunk's
\* metadata and score and a preview of its content
SourcesMatch(sources, docs) ==
    /\ Len(sources) = Len(docs)
    /\ \A i \in 1..Len(docs) :
          /\ IsPreviewOf(sources[i].content_preview, docs[i].content)
          /\ sources[i].metadata = docs[i].metadata
          /\ sources[i].relevance_score = docs[i].relevance_score

\* no preview holds the whole text of its chunk
NoFullText(sources, docs) ==
    \A i \in 1..Len(docs) :
        SubSeq(sources[i].content_preview, 1, Len(sources[i].content_preview) - 1)
            # docs[i].content

\* the sources of an answer, in the atomic result, in the sources event of a
\* stream and in the stored turn, satisfy P with the retrieved chunks
SourcesEverywhere(P(_, _)) ==
    /\ (AskStarts /\ askcall'.out.genCalls = 1)
          => P(askcall'.out.result.sources, DocsOfPrompt(askcall'.out.prompt))
    /\ (AskReturnsAnswer /\ askcall.out.genCalls = 1)
          => /\ response'.body.sources = askcall.out.result.sources
             /\ Last(conversation_store'[askcall.session_id]).sources
                   = askcall.out.result.sources
    /\ \A r \in DOMAIN streams :
          /\ (streams[r].pc = "start" /\ streams'[r].engine = "after_sources")
                => /\ "sources" \in Last(streams'[r].events).keys
                   /\ P(Last(streams'[r].events).sources, streams'[r].docs)
                   /\ streams'[r].sources = Last(streams'[r].events).sources
          /\ (StreamStores(r) /\ streams[r].docs # <<>>)
                => /\ P(streams[r].sources, streams[r].docs)
                   /\ Last(conversation_store'[streams[r].session_id]).sources
                         = streams[r].sources

\* C30 as stated: each content_preview is the first 200 characters of the
\* chunk followed by an ellipsis and never contains the full chunk text; the
\* sources (atomic result, sources event, stored turn) have one entry per
\* retrieved chunk, in rank order, with the chunk's metadata and score.
C30_PreviewNeverFullText ==
    [][SourcesEverywhere(LAMBDA sources, docs :
           SourcesMatch(sources, docs) /\ NoFullText(sources, docs))]_vars

\* C30 amended: each content_preview is the first 200 characters of the
\* chunk, or the whole chunk if it has at most 200, followed by an ellipsis
\* (so it contains the full text exactly when the chunk has at most 200
\* characters); the sources (atomic result, sources event, stored turn) have
\* one entry per retrieved chunk, in rank order, with the chunk's metadata
\* and score.
C30_PreviewIsCappedPrefix ==
    [][SourcesEverywhere(LAMBDA sources, docs :
           /\ SourcesMatch(sources, docs)
           /\ \A i \in 1..Len(docs) :
                 (SubSeq(sources[i].content_preview, 1,
                         Len(sources[i].content_preview) - 1) = docs[i].content)
                    <=> Len(docs[i].content) <= PreviewLen)]_vars

\* an ask has answered with two sources: first the long chunk, cut to the
\* preview length, then the short chunk, whole
C30_Witness ==
    /\ response.op = "ask" /\ response.status = 200
    /\ Len(response.body.sources) = 2
    /\ Len(response.body.sources[1].content_preview) = PreviewLen + 1
    /\ response.body.sources[1].metadata.filename = "long.txt"
    /\ response.body.sources[2].content_preview = <<"c", "1", "...">>
    /\ Len(Last(conversation_store["s1"]).sources) = 2

----------------------------------------------------------------------------

\* C23: question requests of one session that are in flight together and
\* complete each leave their turn in the session's history, once and intact:
\* every completion appends its own turn behind all turns already stored
\* (also those stored since the request started), so the history holds as
\* many turns as requests have completed, in the order of their completion.
C23_ConcurrentAppendsKept ==
    /\ [](\A s \in DOMAIN conversation_store :
            /\ Len(conversation_store[s]) = clock
            /\ \A i \in 1..Len(conversation_store[s]) :
                  conversation_store[s][i].timestamp = i)
    /\ [][/\ AskReturnsAnswer
                => OneTurnAppended(askcall.session_id, askcall.question,
                                   askcall.out.result.answer, askcall.out.result.sources)
          /\ \A r \in DOMAIN streams :
                StreamStores(r)
                    => OneTurnAppended(streams[r].session_id, streams[r].question,
                                       streams[r].full_answer, streams[r].sources)
         ]_vars

\* a stream that was accepted before the session existed has delivered its
\* answer and is about to store it, after another request of the session,
\* in flight at the same time, has stored its turn
C23_Witness ==
    \E r \in DOMAIN streams :
        /\ streams[r].pc = "yield" /\ IsDone(Last(streams[r].events))
        /\ streams[r].full_answer # <<>>
        /\ streams[r].session_id = "s1"
        /\ StartedUnknown(streams[r])
        /\ "s1" \in DOMAIN conversation_store
        /\ Len(conversation_store["s1"]) = 1

\* C24: question requests of different sessions do not block each other:
\* while an atomic ask is inside its retrieval or generation call, a request
\* for another session can start (a free generator accepts a streaming
\* question of another session) and a stream of another session that is
\* in flight can take its next step.
C24_AskDoesNotBlockOthers ==
    (askcall.pc = "called" /\ CanAccept)
        => \A r \in DOMAIN streams :
              /\ streams[r].pc = "idle"
                    => ENABLED (\E q \in Questions,
                                   sid \in RequestSessionIds \ {askcall.session_id} :
                                     ask_question_stream(r, q, sid))
              /\ (streams[r].pc = "start" /\ streams[r].session_id # askcall.session_id)
                    => ENABLED stream_start(r)

\* C25: two ingestions never write to the index at the same time: at most
\* one initialize handler is between its start and its end, a second
\* initialize cannot start before the first has ended (it waits), and while
\* an ingestion runs the index changes only by that ingestion's end.
C25_OneIngestionAtATime ==
    /\ [](ingesting <= 1)
    /\ [](ingesting > 0 => ~ENABLED initialize_begin)
    /\ [][/\ ingesting' > ingesting => ingesting = 0
          /\ (ingesting > 0 /\ <<chroma_db, vectorstore>>' # <<chroma_db, vectorstore>>)
                => ingesting' = ingesting - 1
         ]_vars

\* an ingestion is running over an index an earlier ingestion has filled,
\* and a further initialize cannot start
C25_Witness ==
    /\ ingesting = 1
    /\ chroma_db # {}
    /\ documents # {}
    /\ ~ENABLED initialize_begin

----------------------------------------------------------------------------

\* the failure a response reports, told by what the handler wrote into it
FailureKind(resp) ==
    IF resp.detail = NotReadyDetail THEN "not_initialized"
    ELSE IF resp.detail = NotFoundDetail THEN "session_not_found"
    ELSE IF resp.detail = "No documents found" THEN "no_documents"
    ELSE IF resp.op = "ask" /\ resp.status = 200 /\ resp.body.answer = ErrorText
    THEN "generation_failed"
    ELSE "none"

\* C27: the failures not-initialized, session-not-found, no-documents and
\* generation-failed are told apart by the status of the response, without
\* its message text: two responses that report different failures never
\* have the same status, and none of them has a success status.
C27_FailuresDistinguishable ==
    /\ [](FailureKind(response) # "none" => response.status >= 400)
    /\ [][(/\ FailureKind(response) # "none"
           /\ FailureKind(response') # "none"
           /\ FailureKind(response) # FailureKind(response'))
              => response.status # response'.status]_vars

----------------------------------------------------------------------------

\* C31: a retrieval that returns chunks returns at most k of them, and
\* their relevance_rank values are 1, 2, ... in output order: the i-th
\* chunk has rank i, so the ranks start at 1 and have no gap and no duplicate.
C31_RanksContiguous ==
    (response.op = "retrieve" /\ response.body.docs # <<>>)
        => /\ Len(response.body.docs) <= K
           /\ \A i \in 1..Len(response.body.docs) :
                 response.body.docs[i].relevance_rank = i

\* a retrieval has returned two chunks
C31_Witness ==
    /\ response.op = "retrieve"
    /\ Len(response.body.docs) = 2

\* C32: the chunks a retrieval returns are in ascending order of
\* relevance_score, in whatever order the vector store hands back its hits.
C32_AscendingScores ==
    response.op = "retrieve"
        => \A i, j \in 1..Len(response.body.docs) :
              i < j => response.body.docs[i].relevance_score
                          <= response.body.docs[j].relevance_score

\* C33: a retrieval on an engine without a vector store fails with the
\* not-initialized error; it returns an empty sequence without an error only
\* when a vector store is attached and hands back no hit; and it never
\* changes the vector store.
C33_RetrieveUninitializedFails ==
    /\ [](response.op = "retrieve" =>
            /\ ~Attached(vectorstore) => response.body.error = "NotInitializedError"
            /\ (response.body.error = "none" /\ response.body.docs = <<>>)
                  => Attached(vectorstore))
    /\ [][retrieve_call => UNCHANGED <<vectorstore, chroma_db>>]_vars

----------------------------------------------------------------------------

\* C34: whenever system_ready is set the engine has a vector store attached
\* (not the other way round: a reset clears the flag and leaves the store
\* attached); so an ask that was accepted never gets the engine's own
\* not-initialized result, and no stream ever carries the engine's
\* not-initialized event.
C34_ReadyImpliesAttached ==
    /\ system_ready => Attached(vectorstore)
    /\ askcall.pc = "called" => "error" \notin askcall.out.result.keys
    /\ \A r \in DOMAIN streams :
          \A i \in 1..Len(streams[r].events) :
              streams[r].events[i] # EvNotInitialized

\* a stream that was accepted is delivering events from the attached store
\* after a reset has cleared the flag
C34_Witness ==
    /\ response.op = "reset" /\ response.status = 200
    /\ ~system_ready
    /\ Attached(vectorstore)
    /\ \E r \in DOMAIN streams :
          streams[r].pc = "yield" /\ streams[r].engine = "after_sources"

\* the summaries a session list gives of the store as it is
SummariesOfStore ==
    {SessionSummary(s, conversation_store[s]) : s \in DOMAIN conversation_store}

\* C35: every session in the store holds at least one turn; so the
\* active_sessions count of a session list is the number of keys of the
\* store, and a clear_all that follows the list with the store as the list
\* saw it returns that count as sessions_cleared.
C35_NoEmptySession ==
    /\ [](\A s \in DOMAIN conversation_store : conversation_store[s] # <<>>)
    /\ [][/\ list_all_sessions
                => response'.body.active_sessions
                      = Cardinality(DOMAIN conversation_store')
          /\ (/\ clear_all_conversations
              /\ response.op = "list"
              /\ response.body.sessions = SummariesOfStore)
                => response'.body.sessions_cleared = response.body.active_sessions
         ]_vars

\* a list has counted the two sessions of the store, each with one turn,
\* and no request is in flight: a clear_all is next to count them
C35_Witness ==
    /\ response.op = "list"
    /\ response.body.active_sessions = 2
    /\ response.body.sessions = SummariesOfStore
    /\ Cardinality(DOMAIN conversation_store) = 2
    /\ \A r \in DOMAIN streams : streams[r].pc = "idle"
    /\ askcall.pc = "idle"

\* C36: reset and initialize, whether they succeed or fail, leave the
\* conversation store as it was, and the prompt of an ask is composed from
\* the last turns the store holds for its session; so a question asked after
\* a reset and a new initialize gets the turns stored before the reset.
C36_SystemOpsKeepLedger ==
    [][/\ (reset_system \/ initialize_system) => UNCHANGED conversation_store
       /\ (response'.op \in {"reset", "initialize"} /\ response' # response)
             => UNCHANGED conversation_store
       /\ (AskStarts /\ askcall'.out.genCalls = 1)
             => askcall'.out.prompt.history =
                   PromptLines(LastN(GetHistory(conversation_store, askcall'.session_id),
                                     HistoryWindow))
      ]_vars

\* a reset has cleared the flag and emptied the index, and the turn the
\* session had stored is still there
C36_Witness ==
    /\ response.op = "reset" /\ response.status = 200
    /\ ~system_ready
    /\ chroma_db = {}
    /\ "s1" \in DOMAIN conversation_store
    /\ Len(conversation_store["s1"]) >= 1

\* C37: an initialize that finds ./documents absent or empty answers 400 and
\* leaves the flag, the attached vector store and the index as they were (a
\* ready system stays ready); an initialize whose ingestion raises answers
\* 500 and clears the flag.
C37_RejectedInitializeKeepsReadiness ==
    [][/\ (initialize_system /\ documents = {})
             => /\ response'.status = 400
                /\ UNCHANGED <<system_ready, vectorstore, chroma_db>>
       /\ (initialize_system /\ response'.status = 400) => documents = {}
       /\ (initialize_system /\ response'.status = 500)
             => /\ documents # {}
                /\ ~system_ready'
                /\ UNCHANGED <<vectorstore, chroma_db>>
      ]_vars

\* an initialize has been rejected for lack of documents on a system that
\* is ready and has its index
C37_Witness ==
    /\ response.op = "initialize" /\ response.status = 400
    /\ documents = {}
    /\ system_ready
    /\ Attached(vectorstore)
    /\ chroma_db # {}

----------------------------------------------------------------------------

\* the step adds a turn to the session of the stream in slot r, and is not
\* the return of an ask
StreamAddsTurn(r) ==
    /\ streams[r].pc # "idle"
    /\ askcall' = askcall
    /\ streams[r].session_id \in DOMAIN conversation_store'
    /\ Len(conversation_store'[streams[r].session_id])
          > Len(GetHistory(conversation_store, streams[r].session_id))

\* the done event of slot r has been handed over and the generator waits
DoneDelivered(r) ==
    streams[r].pc = "yield" /\ IsDone(Last(streams[r].events))

\* C38: a stream appends its turn only in the resumption that follows the
\* hand-over of its done = true event, never in or before the step that
\* yields it; and a consumer that goes away once it has the done event
\* leaves the store without the turn.
C38_TurnStoredAfterDone ==
    [][\A r \in DOMAIN streams :
         /\ StreamAddsTurn(r) => (DoneDelivered(r) /\ streams'[r].pc = "idle")
         /\ (DoneDelivered(r) /\ stream_disconnect(r))
               => UNCHANGED <<conversation_store, clock>>
      ]_vars

\* the done event of a stream with an answer has been handed over and the
\* session has no turn yet; the generator can be resumed or closed
C38_Witness ==
    \E r \in DOMAIN streams :
        /\ DoneDelivered(r)
        /\ streams[r].full_answer # <<>>
        /\ streams[r].session_id \notin DOMAIN conversation_store
        /\ clock = 0
        /\ ENABLED stream_finish(r)
        /\ ENABLED stream_disconnect(r)

----------------------------------------------------------------------------

\* the events of a stream that end it
TerminalEvents(events) == {i \in 1..Len(events) : IsDone(events[i])}

\* C39: the creation of the session's list and the append of the turn are
\* atomic for a clear or clear_all running at the same time: an ask that has
\* its answer returns it with status 200 and its turn is in the store, a
\* stream that has delivered its answer stores its turn, and no stream
\* carries a second terminal event.
C39_StoreAtomicUnderClear ==
    /\ [](\A r \in DOMAIN streams :
            Cardinality(TerminalEvents(streams[r].events)) <= 1)
    /\ [][/\ (askcall.pc = "append" /\ askcall'.pc = "idle")
                => /\ response'.status = 200
                   /\ askcall.session_id \in DOMAIN conversation_store'
                   /\ Last(conversation_store'[askcall.session_id]).answer
                         = askcall.out.result.answer
          /\ \A r \in DOMAIN streams :
                (streams[r].pc = "append" /\ streams'[r].pc # "append")
                    => /\ streams[r].session_id \in DOMAIN conversation_store'
                       /\ Last(conversation_store'[streams[r].session_id]).answer
                             = streams[r].full_answer
         ]_vars

\* C40: a stream of session s that was accepted while s had turns keeps
\* the list it captured when s is cleared; its prompt is composed from that
\* list; and when it stores its turn after the clear, with s still absent,
\* s is created again holding exactly that turn.
C40_StreamAfterClearRecreates ==
    [][\A r \in DOMAIN streams :
         LET st == streams[r] IN
         /\ (st.pc # "idle" /\ st.live /\ st.session_id \notin DOMAIN conversation_store')
               => /\ ~streams'[r].live
                  /\ streams'[r].history = conversation_store[st.session_id]
                  /\ streams'[r].pc = st.pc
         /\ (st.pc # "idle" /\ ~st.live /\ streams'[r].genCalls = st.genCalls + 1)
               => streams'[r].prompt.history = PromptLines(LastN(st.history, HistoryWindow))
         /\ (StreamStores(r) /\ ~st.live /\ st.session_id \notin DOMAIN conversation_store)
               => /\ DOMAIN conversation_store'
                        = DOMAIN conversation_store \cup {st.session_id}
                  /\ conversation_store'[st.session_id] = <<StreamEntry(st, clock')>>
      ]_vars

\* the last response is the successful clear of s1, which held a turn from
\* the start, and since then a stream accepted before that clear has stored
\* the first turn of the model's clock: s1 holds exactly that turn
C40_Witness ==
    /\ response.op = "clear" /\ response.status = 200
    /\ response.body.session_id = "s1"
    /\ clock = 1
    /\ DOMAIN conversation_store = {"s1"}
    /\ Len(conversation_store["s1"]) = 1
    /\ conversation_store["s1"][1].timestamp = 1
    /\ \A r \in DOMAIN streams : streams[r].pc = "idle"

====
